---- MODULE Spec2Model ----
(***************************************************************************)
(* A model of apio's package resolution / environment composition          *)
(* (src/apio/util.py) and of its streaming downloader                      *)
(* (src/apio/managers/downloader.py).                                      *)
(*                                                                         *)
(* Path strings are modelled as sequences of path segments; the empty      *)
(* string "" is the empty sequence.  The PATH variable is modelled as the  *)
(* sequence of its os.pathsep-separated entries.                           *)
(***************************************************************************)
EXTENDS Integers, Sequences, FiniteSets, TLC

\* ------------------------------------------------------------------------
\* Bounds of the model
\* ------------------------------------------------------------------------
\* longest list of required packages handed to resolve_packages
MaxPackages == 2
\* number of calls of setup_environment in a row
MaxCalls == 2
\* the largest body is MaxChunks full chunks plus a partial one
MaxChunks == 2
\* time-zone offsets range over -MaxZone .. MaxZone hours
MaxZone == 1
\* wall-clock readings of a Last-Modified header range over 0 .. MaxWall hours
MaxWall == 1

\* ------------------------------------------------------------------------
\* Constants of util.py
\* ------------------------------------------------------------------------
OSS_CAD_SUITE == "oss-cad-suite"
GTKWAVE == "gtkwave"
ICOPROG == "icoprog"
BIN == "bin"
OSS_CAD_SUITE_FOLDER == "tools-oss-cad-suite"
GTKWAVE_FOLDER == "tool-gtkwave"
ICOPROG_FOLDER == "tool-icoprog"

\* the keys of the base_dir / bin_dir tables, in dict (insertion) order
PackageOrder == <<OSS_CAD_SUITE, GTKWAVE, ICOPROG>>
Packages == {OSS_CAD_SUITE, GTKWAVE, ICOPROG}

\* the empty string
EmptyStr == <<>>

\* values of platform.system()
Platforms == {"Windows", "Linux"}

\* states of a package folder on disk: present with its bin subfolder,
\* present without a bin subfolder, missing
DirStates == {"ok", "nobin", "absent"}

\* installed version strings of the profile: empty, malformed, two versions
Versions == {"", "1.x", "1.0.0", "2.0.0"}
\* constraint strings of the distribution: empty, or a range
Constraints == {"", ">=1.0.0,<2.0.0"}

\* the four fixed variables set besides PATH
EnvNames == {"IVL", "ICEBOX", "TRELLIS", "YOSYS_LIB"}

VARIABLES
    platform_system,  \* platform.system()
    dir_state,        \* package name -> state of its folder under packages/
    cwd_bin,          \* whether the working directory holds a "bin" folder
    environ_path,     \* os.environ["PATH"], as its entries
    environ_vars,     \* os.environ restricted to EnvNames (unset: not in DOMAIN)
    log,              \* the environment operations run so far, with results
    \* --- downloader ---
    response,         \* what the server answers to requests.get(url)
    local_zone,       \* the host's time-zone offset (hours east of UTC)
    dl,               \* the FileDownloader object and its progress
    dest_file         \* the destination file on disk

resolver_vars == <<platform_system, dir_state, cwd_bin, environ_path, environ_vars, log>>
downloader_vars == <<response, local_zone, dl, dest_file>>
vars == <<resolver_vars, downloader_vars>>

\* ------------------------------------------------------------------------
\* Paths
\* ------------------------------------------------------------------------
\* str(Path(p) / seg): Path("") / "bin" is the relative path "bin"
PathJoin(p, seg) == Append(p, seg)

\* the folder name of a package under packages/
FolderOf(name) ==
    CASE name = OSS_CAD_SUITE -> OSS_CAD_SUITE_FOLDER
      [] name = GTKWAVE -> GTKWAVE_FOLDER
      [] name = ICOPROG -> ICOPROG_FOLDER

\* get_package_dir: the folder if it exists, "" otherwise
get_package_dir(name) ==
    IF dir_state[name] # "absent"
    THEN <<"/", "home", ".apio", "packages", FolderOf(name)>>
    ELSE EmptyStr

get_base_dir == [name \in Packages |-> get_package_dir(name)]

get_bin_dir_table(base_dir) == [name \in Packages |-> PathJoin(base_dir[name], BIN)]

\* os.path.isdir on a bin_dir entry: a relative "bin" is looked up in the
\* working directory, a package's bin folder on disk
isdir(path) ==
    IF path = <<BIN>>
    THEN cwd_bin
    ELSE \E name \in Packages :
            /\ dir_state[name] = "ok"
            /\ path = <<"/", "home", ".apio", "packages", FolderOf(name), BIN>>

\* ------------------------------------------------------------------------
\* Version matching (semantic_version, as used by check_package_version)
\* ------------------------------------------------------------------------
\* semantic_version.Version(version): the parsed <<major, minor, patch>>, or
\* <<>> where the constructor raises ValueError (empty or malformed text)
VersionParse(version) ==
    CASE version = "1.0.0" -> <<1, 0, 0>>
      [] version = "2.0.0" -> <<2, 0, 0>>
      [] OTHER -> <<>>

\* semantic_version.SimpleSpec(spec_version): the parsed clauses
\* <<lower bound (inclusive), upper bound (exclusive)>>, or <<>> where the
\* constructor raises ValueError (the empty string is no valid block)
SimpleSpecParse(spec_version) ==
    CASE spec_version = ">=1.0.0,<2.0.0" -> <<<<1, 0, 0>>, <<2, 0, 0>>>>
      [] OTHER -> <<>>

\* precedence of two parsed versions
VersionLess(a, b) ==
    \/ a[1] < b[1]
    \/ a[1] = b[1] /\ a[2] < b[2]
    \/ a[1] = b[1] /\ a[2] = b[2] /\ a[3] < b[3]

\* semver in spec
VersionInSpec(semver, spec) ==
    /\ ~VersionLess(semver, spec[1])
    /\ VersionLess(semver, spec[2])

\* check_package_version: "True", "False", or "ValueError" when the
\* SimpleSpec constructor, which is outside the try block, raises
check_package_version(version, spec_version) ==
    LET spec == SimpleSpecParse(spec_version)
        semver == VersionParse(version)
    IN  IF Len(spec) = 0 THEN "ValueError"
        ELSE IF Len(semver) = 0 THEN "False"
        ELSE IF VersionInSpec(semver, spec) THEN "True" ELSE "False"

\* ------------------------------------------------------------------------
\* Diagnostics (click.secho output), as records
\* ------------------------------------------------------------------------
show_package_path_error(name) == [kind |-> "path_error", name |-> name]
show_package_version_warning(name) == [kind |-> "version_warning", name |-> name]
show_package_install_instructions(name) == [kind |-> "install_instructions", name |-> name]

\* ------------------------------------------------------------------------
\* check_package
\* ------------------------------------------------------------------------
\* (mutant) the exemption without its platform test
gtkwave_exempt_any_platform(name) == name = "gtkwave"

\* the gtkwave exemption of check_package
gtkwave_exempt(name) == name = "gtkwave" /\ platform_system # "Windows"

\* the result ("True", "False", "ValueError"), the diagnostics emitted, and
\* whether check_package_version was called
check_package(name, version, spec_version, path) ==
    IF gtkwave_exempt(name)
    THEN [ret |-> "True", out |-> <<>>, version_checked |-> FALSE]
    ELSE IF ~isdir(path)
    THEN [ret |-> "False",
          out |-> <<show_package_path_error(name),
                    show_package_install_instructions(name)>>,
          version_checked |-> FALSE]
    ELSE LET v == check_package_version(version, spec_version)
         IN  IF v = "ValueError"
             THEN [ret |-> "ValueError", out |-> <<>>, version_checked |-> TRUE]
             ELSE IF v = "False"
             THEN [ret |-> "False",
                   out |-> <<show_package_version_warning(name),
                             show_package_install_instructions(name)>>,
                   version_checked |-> TRUE]
             ELSE [ret |-> "True", out |-> <<>>, version_checked |-> TRUE]

\* ------------------------------------------------------------------------
\* set_env_variables
\* ------------------------------------------------------------------------
\* the Windows-only helpers, prepended first (lowest priority)
windows_helpers(bin_dir, path) ==
    IF platform_system = "Windows"
    THEN LET p1 == IF bin_dir[GTKWAVE] # EmptyStr
                   THEN <<bin_dir[GTKWAVE]>> \o path ELSE path
         IN  IF bin_dir[ICOPROG] # EmptyStr
             THEN <<bin_dir[ICOPROG]>> \o p1 ELSE p1
    ELSE path

\* for pack in base_dir: prepend the bin folder of each installed package
\* but the primary one
RECURSIVE prepend_installed(_, _, _, _)
prepend_installed(i, base_dir, bin_dir, path) ==
    IF i > Len(PackageOrder) THEN path
    ELSE LET pack == PackageOrder[i]
         IN  prepend_installed(i + 1, base_dir, bin_dir,
                IF base_dir[pack] # EmptyStr /\ pack # OSS_CAD_SUITE
                THEN <<bin_dir[pack]>> \o path ELSE path)

\* (mutant) the primary package with bin prepended before lib
prepend_primary_lib_last(base_dir, bin_dir, path) ==
    IF base_dir[OSS_CAD_SUITE] # EmptyStr
    THEN LET oss_cad_suite_lib == PathJoin(base_dir[OSS_CAD_SUITE], "lib")
         IN  <<oss_cad_suite_lib>> \o (<<bin_dir[OSS_CAD_SUITE]>> \o path)
    ELSE path

\* the primary package, prepended last (highest priority): lib, then bin
prepend_primary(base_dir, bin_dir, path) ==
    IF base_dir[OSS_CAD_SUITE] # EmptyStr
    THEN LET oss_cad_suite_lib == PathJoin(base_dir[OSS_CAD_SUITE], "lib")
         IN  <<bin_dir[OSS_CAD_SUITE]>> \o (<<oss_cad_suite_lib>> \o path)
    ELSE path

\* the new value of os.environ["PATH"]
set_env_path(base_dir, bin_dir, path) ==
    prepend_primary(base_dir, bin_dir,
        prepend_installed(1, base_dir, bin_dir,
            windows_helpers(bin_dir, path)))

\* the new values of IVL, ICEBOX, TRELLIS and YOSYS_LIB
set_env_others(base_dir) ==
    LET oss == base_dir[OSS_CAD_SUITE]
    IN  [n \in EnvNames |->
            CASE n = "IVL" -> PathJoin(PathJoin(oss, "lib"), "ivl")
              [] n = "ICEBOX" -> PathJoin(PathJoin(oss, "share"), "icebox")
              [] n = "TRELLIS" -> PathJoin(PathJoin(oss, "share"), "trellis")
              [] n = "YOSYS_LIB" -> PathJoin(PathJoin(oss, "share"), "yosys")]

\* ------------------------------------------------------------------------
\* resolve_packages
\* ------------------------------------------------------------------------
\* installed_packages.get(package, {}).get("version", "")
installed_version(installed_packages, package) ==
    IF package \in DOMAIN installed_packages
    THEN installed_packages[package] ELSE ""

\* spec_packages.get(package, "")
required_spec(spec_packages, package) ==
    IF package \in DOMAIN spec_packages
    THEN spec_packages[package] ELSE ""

\* check &= check_package(...)
and_check(check, ret) == check /\ (ret = "True")

\* the loop over the required packages from index i on; acc holds check,
\* the packages checked with their results, and the diagnostics emitted.
\* An exception of check_package leaves the loop.
RECURSIVE check_loop(_, _, _, _, _)
check_loop(packages, installed_packages, spec_packages, i, acc) ==
    IF i > Len(packages) THEN acc
    ELSE LET package == packages[i]
             version == installed_version(installed_packages, package)
             spec_version == required_spec(spec_packages, package)
             bin_dir == get_bin_dir_table(get_base_dir)
             r == check_package(package, version, spec_version, bin_dir[package])
             next == [check |-> and_check(acc.check, r.ret),
                      checked |-> Append(acc.checked,
                                    [name |-> package, version |-> version,
                                     spec_version |-> spec_version, ret |-> r.ret,
                                     version_checked |-> r.version_checked]),
                      out |-> acc.out \o r.out,
                      raised |-> r.ret = "ValueError"]
         IN  IF next.raised THEN next
             ELSE check_loop(packages, installed_packages, spec_packages, i + 1, next)

\* whether resolve_packages goes on to set_env_variables
load_packages(loop) == ~loop.raised /\ loop.check

\* resolve_packages as one step: the loop, then set_env_variables if check
resolve_packages(packages, installed_packages, spec_packages) ==
    LET base_dir == get_base_dir
        bin_dir == get_bin_dir_table(base_dir)
        loop == check_loop(packages, installed_packages, spec_packages, 1,
                    [check |-> TRUE, checked |-> <<>>, out |-> <<>>, raised |-> FALSE])
        load == load_packages(loop)
    IN  /\ environ_path' = IF load THEN set_env_path(base_dir, bin_dir, environ_path)
                           ELSE environ_path
        /\ environ_vars' = IF load THEN set_env_others(base_dir) ELSE environ_vars
        /\ log' = Append(log,
                    [op |-> "resolve_packages",
                     packages |-> packages,
                     installed_packages |-> installed_packages,
                     spec_packages |-> spec_packages,
                     ret |-> IF loop.raised THEN "ValueError"
                             ELSE IF loop.check THEN "True" ELSE "False",
                     checked |-> loop.checked,
                     out |-> loop.out,
                     set_env |-> load,
                     path_before |-> environ_path,
                     vars_before |-> environ_vars,
                     path_after |-> environ_path',
                     vars_after |-> environ_vars'])
        /\ UNCHANGED <<platform_system, dir_state, cwd_bin, downloader_vars>>

\* setup_environment: set_env_variables without any check
setup_environment ==
    LET base_dir == get_base_dir
        bin_dir == get_bin_dir_table(base_dir)
    IN  /\ Len(log) < MaxCalls
        /\ \A i \in DOMAIN log : log[i].op = "setup_environment"
        /\ environ_path' = set_env_path(base_dir, bin_dir, environ_path)
        /\ environ_vars' = set_env_others(base_dir)
        /\ log' = Append(log,
                    [op |-> "setup_environment",
                     packages |-> <<>>,
                     installed_packages |-> <<>>,
                     spec_packages |-> <<>>,
                     ret |-> "None",
                     checked |-> <<>>,
                     out |-> <<>>,
                     set_env |-> TRUE,
                     path_before |-> environ_path,
                     vars_before |-> environ_vars,
                     path_after |-> environ_path',
                     vars_after |-> environ_vars'])
        /\ UNCHANGED <<platform_system, dir_state, cwd_bin, downloader_vars>>

\* ------------------------------------------------------------------------
\* The inputs of resolve_packages
\* ------------------------------------------------------------------------
\* lists of distinct package names, up to MaxPackages long
RECURSIVE ListsUpTo(_)
ListsUpTo(n) ==
    IF n = 0 THEN {<<>>}
    ELSE LET shorter == ListsUpTo(n - 1)
         IN  shorter \cup
             {Append(l, p) : l \in {s \in shorter : Len(s) = n - 1},
                             p \in Packages}

Range(l) == {l[i] : i \in DOMAIN l}

PackageLists == {l \in ListsUpTo(MaxPackages) : Cardinality(Range(l)) = Len(l)}

\* dictionaries keyed by some of the names in S, with values in V
Dicts(S, V) == UNION {[D -> V] : D \in SUBSET S}

\* a first call of resolve_packages, on any list of required packages, any
\* profile and any distribution table (entries of packages that are not
\* required are never read and are left out)
ResolveFirst ==
    /\ log = <<>>
    /\ \E packages \in PackageLists :
       \E installed_packages \in Dicts(Range(packages), Versions \ {""}) :
       \E spec_packages \in Dicts(Range(packages), Constraints \ {""}) :
            resolve_packages(packages, installed_packages, spec_packages)

\* a second call with the arguments of the first one, nothing having
\* changed on disk
ResolveAgain ==
    /\ Len(log) = 1
    /\ log[1].op = "resolve_packages"
    /\ resolve_packages(log[1].packages, log[1].installed_packages,
                        log[1].spec_packages)

InitResolver ==
    /\ platform_system \in Platforms
    /\ dir_state \in [Packages -> DirStates]
    /\ cwd_bin \in BOOLEAN
    /\ environ_path = <<<<"/", "usr", "bin">>>>
    /\ environ_vars = <<>>
    /\ log = <<>>

NextResolver ==
    \/ ResolveFirst
    \/ ResolveAgain
    \/ setup_environment


\* ------------------------------------------------------------------------
\* FileDownloader (managers/downloader.py)
\* ------------------------------------------------------------------------
CHUNK_SIZE == 1024

StatusCodes == {200, 304, 404}

\* body and Content-Length sizes: around every multiple of the chunk size
Sizes == {k * CHUNK_SIZE + r : k \in 0..MaxChunks, r \in {0, 1, CHUNK_SIZE - 1}}

Zones == (0 - MaxZone)..MaxZone

Url == "https://host/packages/tools.tar.gz"

\* (mutant) a constructor that rejects error statuses only
status_ok_below_400(status_code) == status_code < 400

\* the constructor's test of the handshake's status code
status_ok(status_code) == status_code = 200

\* bool(self._request): requests.Response is truthy iff its status is no
\* error status (Response.ok)
request_truthy(status_code) == status_code < 400

\* get_lmtime: the header, or None
get_lmtime == IF response.has_lm THEN <<response.lm_wall, response.lm_zone>> ELSE <<>>

\* (mutant) get_size with a default of 0 for a missing header
get_size_default_0 ==
    [raised |-> FALSE,
     value |-> IF response.has_length THEN response.content_length ELSE 0]

\* get_size: int(headers.get("content-length")); int(None) raises TypeError
get_size ==
    IF response.has_length
    THEN [raised |-> FALSE, value |-> response.content_length]
    ELSE [raised |-> TRUE, value |-> 0]

\* (mutant) the chunk count rounded down
chunk_count_floor(size) == size \div CHUNK_SIZE

\* int(ceil(size / float(CHUNK_SIZE)))
chunk_count(size) == (size + CHUNK_SIZE - 1) \div CHUNK_SIZE

\* iter_content(chunk_size=CHUNK_SIZE): the lengths of the chunks the
\* connection yields for a body of the given length
RECURSIVE iter_content(_)
iter_content(remaining) ==
    IF remaining = 0 THEN <<>>
    ELSE LET n == IF remaining < CHUNK_SIZE THEN remaining ELSE CHUNK_SIZE
         IN  <<n>> \o iter_content(remaining - n)

\* mktime(parsedate_tz(lmdate)[:9]): the first nine fields (the wall-clock
\* reading) taken as local time; the tenth field, the header's zone offset,
\* is dropped
lmtime_of(lmdate) == lmdate[1] - local_zone

\* __init__: the handshake; raises FDUnrecognizedStatusCode on a status
\* other than 200, after self._request has been assigned
FileDownloader_init ==
    /\ dl.pc = "none"
    /\ dl' = IF status_ok(response.status_code)
             THEN [dl EXCEPT !.pc = "connected", !.handed = TRUE, !.request = TRUE]
             ELSE [dl EXCEPT !.pc = "raised", !.request = TRUE,
                             !.error = <<"FDUnrecognizedStatusCode",
                                         response.status_code, Url>>]
    /\ UNCHANGED <<response, local_zone, dest_file, resolver_vars>>

\* start, line 79-80: the chunk iterator, then open(destination, "wb")
start_open ==
    /\ dl.pc = "connected"
    /\ dl.handed
    /\ dl' = [dl EXCEPT !.pc = "opened", !.start = "running"]
    /\ dest_file' = [dest_file EXCEPT !.exists = TRUE, !.chunks = <<>>]
    /\ UNCHANGED <<response, local_zone, resolver_vars>>

\* start, line 81: the chunk count from get_size()
start_size ==
    /\ dl.pc = "opened"
    /\ dl' = IF get_size.raised
             THEN [dl EXCEPT !.pc = "aborted", !.start = "TypeError"]
             ELSE [dl EXCEPT !.pc = "writing", !.chunks = chunk_count(get_size.value)]
    /\ UNCHANGED <<response, local_zone, dest_file, resolver_vars>>

\* start, line 84-85: one round of the loop; next() on an exhausted
\* iterator raises StopIteration
start_write ==
    /\ dl.pc = "writing"
    /\ dl.written < dl.chunks
    /\ LET content == iter_content(response.body)
           k == dl.written + 1
       IN  IF k > Len(content)
           THEN /\ dl' = [dl EXCEPT !.pc = "aborted", !.start = "StopIteration"]
                /\ UNCHANGED dest_file
           ELSE /\ dl' = [dl EXCEPT !.written = k]
                /\ dest_file' = [dest_file EXCEPT
                        !.chunks = Append(@, [idx |-> k, len |-> content[k]])]
    /\ UNCHANGED <<response, local_zone, resolver_vars>>

\* _preserve_filemtime: os.utime with the local reading of the header
preserve_filemtime(lmdate, file) ==
    IF Len(lmdate) # 0
    THEN [file EXCEPT !.utimes = Append(@, lmtime_of(lmdate))]
    ELSE file

\* start, line 86-88: after the loop, close the connection and set the
\* modification time
start_finish ==
    /\ dl.pc = "writing"
    /\ dl.written = dl.chunks
    /\ dl' = [dl EXCEPT !.pc = "done", !.start = "completed", !.closes = @ + 1]
    /\ dest_file' = preserve_filemtime(get_lmtime, dest_file)
    /\ UNCHANGED <<response, local_zone, resolver_vars>>

\* __del__: runs when the object is dropped, also after __init__ raised
FileDownloader_del ==
    /\ dl.pc \in {"raised", "connected", "aborted", "done"}
    /\ dl' = [dl EXCEPT !.pc = "finalized",
                        !.closes = IF dl.request /\ request_truthy(response.status_code)
                                   THEN @ + 1 ELSE @]
    /\ UNCHANGED <<response, local_zone, dest_file, resolver_vars>>

\* the destination before the download: missing, or a file with old content
old_file(old) ==
    [exists |-> old,
     chunks |-> IF old THEN <<[idx |-> 0, len |-> 1]>> ELSE <<>>,
     utimes |-> <<>>,
     old |-> old]

InitDownloader ==
    /\ response \in
         {r \in [status_code : StatusCodes,
                 has_length : BOOLEAN, content_length : Sizes, body : Sizes,
                 has_lm : BOOLEAN, lm_wall : 0..MaxWall, lm_zone : Zones] :
            /\ r.has_length => r.body <= r.content_length
            /\ ~r.has_length => r.content_length = 0
            /\ ~r.has_lm => r.lm_wall = 0 /\ r.lm_zone = 0}
    /\ local_zone \in Zones
    /\ dl = [pc |-> "none", handed |-> FALSE, request |-> FALSE, error |-> <<>>,
             start |-> "not_started", chunks |-> 0, written |-> 0, closes |-> 0]
    /\ \E old \in BOOLEAN : dest_file = old_file(old)

NextDownloader ==
    \/ FileDownloader_init
    \/ start_open
    \/ start_size
    \/ start_write
    \/ start_finish
    \/ FileDownloader_del

\* the resolver alone: no download in progress
IdleDownloader ==
    /\ response = [status_code |-> 200, has_length |-> TRUE, content_length |-> 0,
                   body |-> 0, has_lm |-> FALSE, lm_wall |-> 0, lm_zone |-> 0]
    /\ local_zone = 0
    /\ dl = [pc |-> "none", handed |-> FALSE, request |-> FALSE, error |-> <<>>,
             start |-> "not_started", chunks |-> 0, written |-> 0, closes |-> 0]
    /\ dest_file = old_file(FALSE)

\* the downloader alone: a fixed package tree, no resolution
IdleResolver ==
    /\ platform_system = "Linux"
    /\ dir_state = [name \in Packages |-> "absent"]
    /\ cwd_bin = FALSE
    /\ environ_path = <<<<"/", "usr", "bin">>>>
    /\ environ_vars = <<>>
    /\ log = <<>>

InitR == InitResolver /\ IdleDownloader
InitD == IdleResolver /\ InitDownloader

SpecResolver == InitR /\ [][NextResolver]_vars
SpecDownloader == InitD /\ [][NextDownloader]_vars

\* ------------------------------------------------------------------------
\* Properties of the resolver
\* ------------------------------------------------------------------------
ResolveCalls == {i \in DOMAIN log : log[i].op = "resolve_packages"}

\* the installed version parses and lies within the constraint's range
VersionWithin(version, spec_version) ==
    /\ Len(VersionParse(version)) # 0
    /\ Len(SimpleSpecParse(spec_version)) # 0
    /\ VersionInSpec(VersionParse(version), SimpleSpecParse(spec_version))

\* the diagnostics of a call that name a package
DiagsFor(e, name) == {k \in DOMAIN e.out : e.out[k].name = name}

\* C1: resolve_packages mutates PATH, IVL, ICEBOX, TRELLIS and YOSYS_LIB only
\* when every required package passed its check: if some package fails the
\* call returns false and the environment is what it was; if all pass it
\* returns true and set_env_variables has run.
C1_EnvOnlyWhenAllPass ==
    \A i \in ResolveCalls :
        LET e == log[i]
        IN  /\ (\E k \in DOMAIN e.checked : e.checked[k].ret = "False")
                => /\ e.ret = "False"
                   /\ e.path_after = e.path_before
                   /\ e.vars_after = e.vars_before
            /\ (/\ Len(e.checked) = Len(e.packages)
                /\ \A k \in DOMAIN e.checked : e.checked[k].ret = "True")
                => /\ e.ret = "True"
                   /\ e.set_env

\* C2: for a package outside the gtkwave exemption, the per-package check
\* returns true iff the installation directory exists and (the constraint
\* is empty or the installed version parses and lies within its range).
C2_SatisfiedIff ==
    \A i \in ResolveCalls :
        \A k \in DOMAIN log[i].checked :
            LET c == log[i].checked[k]
            IN  ~(c.name = GTKWAVE /\ platform_system # "Windows")
                => ((c.ret = "True") <=>
                        /\ dir_state[c.name] # "absent"
                        /\ \/ c.spec_version = ""
                           \/ VersionWithin(c.version, c.spec_version))

\* C3: resolve_packages is check-all-report-all: every required package is
\* checked, in order, whatever happened to the earlier ones; the value
\* returned is the AND of the per-package results; diagnostics are emitted
\* for exactly the packages that failed.
C3_CheckAllReportAll ==
    \A i \in ResolveCalls :
        LET e == log[i]
        IN  /\ Len(e.checked) = Len(e.packages)
            /\ \A k \in DOMAIN e.checked : e.checked[k].name = e.packages[k]
            /\ e.ret \in {"True", "False"}
            /\ (e.ret = "True") <=> (\A k \in DOMAIN e.checked : e.checked[k].ret = "True")
            /\ \A name \in Packages :
                (DiagsFor(e, name) # {}) <=>
                    (\E k \in DOMAIN e.checked :
                        e.checked[k].name = name /\ e.checked[k].ret = "False")

\* C6: after set_env_variables has run with the primary package installed,
\* the first entry of PATH is the primary package's bin directory and the
\* second its lib directory.
C6_PrimaryFirst ==
    \A i \in DOMAIN log :
        (log[i].set_env /\ dir_state[OSS_CAD_SUITE] # "absent")
        => /\ Len(log[i].path_after) >= 2
           /\ log[i].path_after[1] =
                <<"/", "home", ".apio", "packages", "tools-oss-cad-suite", "bin">>
           /\ log[i].path_after[2] =
                <<"/", "home", ".apio", "packages", "tools-oss-cad-suite", "lib">>

\* a second run of set_env_variables on Windows, all three packages installed
C6_Witness ==
    /\ Len(log) = 2
    /\ log[1].set_env
    /\ log[2].set_env
    /\ platform_system = "Windows"
    /\ \A name \in Packages : dir_state[name] = "ok"
    /\ Len(log[2].path_after) > Len(log[2].path_before)

\* whether os.path.isdir holds of the package's bin_dir entry
BinPresent(name) ==
    IF dir_state[name] = "absent" THEN cwd_bin ELSE dir_state[name] = "ok"

\* C10: off Windows, gtkwave always counts as satisfied and gets no
\* diagnostic; on Windows it is checked like every other package.
C10_GtkwaveExemption ==
    \A i \in ResolveCalls :
        \A k \in DOMAIN log[i].checked :
            LET e == log[i]
                c == e.checked[k]
            IN  c.name = GTKWAVE =>
                    IF platform_system # "Windows"
                    THEN c.ret = "True" /\ DiagsFor(e, GTKWAVE) = {}
                    ELSE /\ ~BinPresent(GTKWAVE)
                            => /\ c.ret = "False"
                               /\ \E d \in DiagsFor(e, GTKWAVE) :
                                    e.out[d].kind = "path_error"
                         /\ c.ret = "True"
                            => BinPresent(GTKWAVE) /\ VersionWithin(c.version, c.spec_version)
                         /\ \A j \in DOMAIN e.checked :
                              LET o == e.checked[j]
                              IN  (/\ o.name # GTKWAVE
                                   /\ BinPresent(o.name) = BinPresent(GTKWAVE)
                                   /\ o.version = c.version
                                   /\ o.spec_version = c.spec_version)
                                  => o.ret = c.ret

\* off Windows, a required gtkwave with no folder and a version out of range
C10_Witness ==
    \E i \in ResolveCalls :
        \E k \in DOMAIN log[i].checked :
            LET c == log[i].checked[k]
            IN  /\ c.name = GTKWAVE
                /\ platform_system = "Linux"
                /\ dir_state[GTKWAVE] = "absent"
                /\ ~cwd_bin
                /\ c.version = "2.0.0"
                /\ c.spec_version = ">=1.0.0,<2.0.0"
                /\ c.ret = "True"

\* C11: resolve_packages is idempotent: a second call with the same
\* required packages, profile and constraints, nothing having changed on
\* disk, gives the same return value and the same diagnostics, and leaves
\* the same PATH and the same four variables as the first call did.
C11_Idempotent ==
    (/\ Len(log) = 2
     /\ log[1].op = "resolve_packages"
     /\ log[2].op = "resolve_packages")
    => /\ log[2].ret = log[1].ret
       /\ log[2].out = log[1].out
       /\ log[2].vars_after = log[1].vars_after
       /\ log[2].path_after = log[1].path_after

\* the entries a run of set_env_variables has put in front of the old PATH
AddedEntries(e) == SubSeq(e.path_after, 1, Len(e.path_after) - Len(e.path_before))

\* the bin folders of the installed packages and the primary one's lib folder
InstalledDirs ==
    {<<"/", "home", ".apio", "packages", FolderOf(name), "bin">> :
        name \in {n \in Packages : dir_state[n] # "absent"}}
    \cup (IF dir_state[OSS_CAD_SUITE] # "absent"
          THEN {<<"/", "home", ".apio", "packages", "tools-oss-cad-suite", "lib">>}
          ELSE {})

\* C12: set_env_variables only ever prepends directories of installed
\* packages: each entry it puts in front of the old PATH is the bin (or,
\* for the primary package, lib) folder of a package whose installation
\* directory exists; on Windows too, where the gtkwave and icoprog helpers
\* are prepended only if installed.
C12_OnlyInstalledPrepended ==
    \A i \in DOMAIN log :
        log[i].set_env =>
            /\ Len(log[i].path_after) >= Len(log[i].path_before)
            /\ \A k \in DOMAIN AddedEntries(log[i]) :
                    AddedEntries(log[i])[k] \in InstalledDirs

\* C13: the resolver special-cases empty constraints: for a required
\* package without an entry in the constraint map check_package_version is
\* never called, and no error escapes resolve_packages.
C13_EmptyConstraintSkipped ==
    \A i \in ResolveCalls :
        /\ log[i].ret # "ValueError"
        /\ \A k \in DOMAIN log[i].checked :
                log[i].checked[k].spec_version = ""
                    => ~log[i].checked[k].version_checked

\* ------------------------------------------------------------------------
\* Properties of the downloader
\* ------------------------------------------------------------------------
RECURSIVE TotalLen(_)
TotalLen(chunks) ==
    IF Len(chunks) = 0 THEN 0 ELSE Head(chunks).len + TotalLen(Tail(chunks))

\* C4: after start() completes on a response with a Last-Modified header,
\* the destination's modification time is the instant the header denotes
\* (its wall-clock reading less its zone offset), whatever the host's zone;
\* without the header the modification time is not touched.
C4_MtimeIsHeaderInstant ==
    dl.start = "completed" =>
        IF response.has_lm
        THEN dest_file.utimes = <<response.lm_wall - response.lm_zone>>
        ELSE dest_file.utimes = <<>>

\* C5: over every lifecycle of a FileDownloader whose handshake produced a
\* response, the response is closed exactly once: never twice, and once by
\* the time the object is finalized.
C5_ClosedExactlyOnce ==
    /\ dl.closes <= 1
    /\ dl.pc = "finalized" => dl.closes = 1

\* C7: when the declared size is delivered in full, start() completes,
\* performs exactly ceil(size / CHUNK_SIZE) writes, writes the chunks in
\* the order received, none skipped or repeated, and leaves size bytes.
C7_ChunksAndBytes ==
    (response.has_length /\ response.body = response.content_length) =>
        /\ dl.start \notin {"TypeError", "StopIteration"}
        /\ dl.start = "completed" =>
            LET n == Len(dest_file.chunks)
                size == response.content_length
            IN  /\ dl.written = n
                /\ n * CHUNK_SIZE >= size
                /\ (n - 1) * CHUNK_SIZE < size
                /\ \A k \in 1..n : dest_file.chunks[k].idx = k
                /\ TotalLen(dest_file.chunks) = size

\* a completed download of two full chunks
C7_Witness ==
    /\ dl.start = "completed"
    /\ response.content_length = 2 * CHUNK_SIZE
    /\ response.body = 2 * CHUNK_SIZE
    /\ Len(dest_file.chunks) = 2

\* C8: a handshake with a status other than 200 makes the constructor raise
\* FDUnrecognizedStatusCode with the status and the URL; no object reaches
\* the caller, no transfer starts, the destination is neither created nor
\* modified.
C8_Non200FailsFast ==
    (response.status_code # 200 /\ dl.pc # "none") =>
        /\ dl.pc \in {"raised", "finalized"}
        /\ dl.error = <<"FDUnrecognizedStatusCode", response.status_code, Url>>
        /\ ~dl.handed
        /\ dl.start = "not_started"
        /\ dest_file = old_file(dest_file.old)

\* a constructor that has raised on a 404, an old destination file in place
C8_Witness ==
    /\ response.status_code = 404
    /\ dl.pc = "raised"
    /\ dest_file.old

\* C9: on a 200 response without Content-Length, get_size() raises and
\* start() ends in an error without writing any chunk of the body.
C9_NoLengthIsFatal ==
    (response.status_code = 200 /\ ~response.has_length) =>
        /\ get_size.raised
        /\ dl.written = 0
        /\ \A k \in DOMAIN dest_file.chunks : dest_file.chunks[k].idx = 0
        /\ dl.pc \notin {"writing", "done"}
        /\ dl.start \in {"not_started", "running", "TypeError"}
        /\ dl.pc \in {"aborted", "finalized"} /\ dl.start # "not_started"
            => dl.start = "TypeError"

\* start() has ended in the TypeError of get_size, a body being available
C9_Witness ==
    /\ response.status_code = 200
    /\ ~response.has_length
    /\ response.body > 0
    /\ dl.pc = "aborted"
    /\ dl.start = "TypeError"

====
